---- MODULE Spec2Model ----
(***************************************************************************)
(* Model of the cryptocurrency master query pipeline:                      *)
(*   buildApiParams, transformCryptoData, getCryptoData (filter-aware      *)
(*   cryptocurrenciesController), getAdditionalPercentChanges (apiHelpers) *)
(*   and getMasterData (dashboardController).                              *)
(*                                                                         *)
(* Numbers are integers.  Percent changes are multiples of 12 so that the  *)
(* divisions x / 12 and x / 4 of the code are exact.  A JavaScript object  *)
(* whose property is undefined is a function whose DOMAIN lacks the key.   *)
(* A string the code inspects character by character (name, symbol,        *)
(* search) is a sequence of one-character strings.                         *)
(***************************************************************************)
EXTENDS Integers, Sequences, FiniteSets, TLC

\* ------------------------------------------------------------------ bounds
MaxPage == 2
MaxLimit == 2
\* Longest listing sequence and largest startIndex handed to
\* transformCryptoData on its own
MaxListing == 2
MaxStartIndex == 3

\* ------------------------------------------------------------- vocabulary
Undefined == "undefined"
UndefinedStr == <<"undefined">>

Windows == {"5m", "1h", "6h", "24h", "7d", "30d"}

VALID_TIME_PERIODS == {"5m", "1h", "6h", "24h", "7d", "30d"}

VALID_FILTERS == {"trending", "gainers"} \cup VALID_TIME_PERIODS

VALID_SORT_FIELDS == {"market_cap", "price", "volume_24h", "percent_change"}

\* ---------------------------------------------------------------- strings
ToLowerChar(c) ==
  CASE c = "B" -> "b"
    [] c = "C" -> "c"
    [] c = "E" -> "e"
    [] c = "H" -> "h"
    [] c = "I" -> "i"
    [] c = "L" -> "l"
    [] c = "S" -> "s"
    [] c = "T" -> "t"
    [] c = "U" -> "u"
    [] OTHER -> c

\* String.prototype.toLowerCase
ToLowerCase(s) == [i \in 1..Len(s) |-> ToLowerChar(s[i])]

ToUpperChar(c) ==
  CASE c = "b" -> "B"
    [] c = "c" -> "C"
    [] c = "e" -> "E"
    [] c = "h" -> "H"
    [] c = "i" -> "I"
    [] c = "l" -> "L"
    [] c = "s" -> "S"
    [] c = "t" -> "T"
    [] c = "u" -> "U"
    [] OTHER -> c

\* String.prototype.toUpperCase
ToUpperCase(s) == [i \in 1..Len(s) |-> ToUpperChar(s[i])]

RECURSIVE TrimStart(_)
TrimStart(s) ==
  IF s # <<>> /\ Head(s) = " " THEN TrimStart(Tail(s)) ELSE s

RECURSIVE TrimEnd(_)
TrimEnd(s) ==
  IF s # <<>> /\ s[Len(s)] = " " THEN TrimEnd(SubSeq(s, 1, Len(s) - 1)) ELSE s

\* String.prototype.trim
Trim(s) == TrimEnd(TrimStart(s))

\* Array.prototype.join(','), on strings given as character sequences
RECURSIVE Join(_)
Join(strings) ==
  IF strings = <<>> THEN <<>>
  ELSE IF Len(strings) = 1 THEN strings[1]
  ELSE strings[1] \o <<",">> \o Join(Tail(strings))

\* String.prototype.includes: t occurs in s as a contiguous substring
Includes(s, t) ==
  \E i \in 0..(Len(s) - Len(t)) : SubSeq(s, i + 1, i + Len(t)) = t

\* ------------------------------------------------------ upstream snapshot
\* The listings the provider knows: id, name, symbol and the USD quote.
\* Within each quote field the values are pairwise different, so the
\* provider's ordering of a listings page is determined by the sort field.
Catalogue ==
  << [id |-> 1, name |-> <<"B","i","t","c","o","i","n">>,
      symbol |-> <<"B","T","C">>,
      price |-> 400, market_cap |-> 4000, volume_24h |-> 100,
      percent_change_1h |-> 12, percent_change_24h |-> 24,
      percent_change_7d |-> -12, percent_change_30d |-> 36],
     [id |-> 2, name |-> <<"E","t","h","e","r","e","u","m">>,
      symbol |-> <<"E","T","H">>,
      price |-> 300, market_cap |-> 3000, volume_24h |-> 400,
      percent_change_1h |-> 24, percent_change_24h |-> 12,
      percent_change_7d |-> 24, percent_change_30d |-> -12],
     [id |-> 3, name |-> <<"T","e","t","h","e","r">>,
      symbol |-> <<"U","S","D","T">>,
      price |-> 1, market_cap |-> 2000, volume_24h |-> 300,
      percent_change_1h |-> 0, percent_change_24h |-> 0,
      percent_change_7d |-> 0, percent_change_30d |-> 0],
     [id |-> 4, name |-> <<"L","i","t","e","c","o","i","n">>,
      symbol |-> <<"L","T","C">>,
      price |-> 100, market_cap |-> 1000, volume_24h |-> 200,
      percent_change_1h |-> -12, percent_change_24h |-> -24,
      percent_change_7d |-> 12, percent_change_30d |-> 12] >>

CoinIds == 1..Len(Catalogue)

\* The provider holds the first n listings of the catalogue.
Universes == { 1..n : n \in 0..Len(Catalogue) }

\* How far the quotes endpoint's 24h figure may have moved from the one the
\* listings endpoint reported a moment earlier.
QuoteDrifts == {0, -48}

\* ----------------------------------------------------- upstream listings
\* The quote field the provider orders by for a given sort parameter.
SortKey(coin, sort) ==
  CASE sort = "market_cap" -> coin.market_cap
    [] sort = "price" -> coin.price
    [] sort = "volume_24h" -> coin.volume_24h
    [] sort = "percent_change_1h" -> coin.percent_change_1h
    [] sort = "percent_change_24h" -> coin.percent_change_24h
    [] sort = "percent_change_7d" -> coin.percent_change_7d
    [] sort = "percent_change_30d" -> coin.percent_change_30d

RECURSIVE SortedIds(_, _, _)
SortedIds(ids, sort, sort_dir) ==
  IF ids = {} THEN <<>>
  ELSE LET first == CHOOSE i \in ids : \A j \in ids :
                      IF sort_dir = "asc"
                        THEN SortKey(Catalogue[i], sort) <= SortKey(Catalogue[j], sort)
                        ELSE SortKey(Catalogue[i], sort) >= SortKey(Catalogue[j], sort)
       IN <<first>> \o SortedIds(ids \ {first}, sort, sort_dir)

\* listings/latest: the records ranked start .. start + limit - 1 in the
\* requested order, and the number of listings the provider holds.
ListingsLatest(ids, params) ==
  LET ranked == SortedIds(ids, params.sort, params.sort_dir)
      last == IF params.start + params.limit - 1 < Len(ranked)
                THEN params.start + params.limit - 1 ELSE Len(ranked)
  IN [data |-> [k \in 1..(IF last >= params.start THEN last - params.start + 1 ELSE 0)
                  |-> Catalogue[ranked[params.start + k - 1]]],
      status |-> [total_count |-> Cardinality(ids)]]

\* quotes/latest answers for a subset of the requested symbols; each answer
\* carries the listing's 1h figure and its 24h figure moved by a drift.
QuotesLatestResponses(listing) ==
  LET syms == {listing[k].symbol : k \in 1..Len(listing)}
      QuoteOf(sym, d) ==
        LET c == CHOOSE c \in {listing[k] : k \in 1..Len(listing)} : c.symbol = sym
        IN [percent_change_1h |-> c.percent_change_1h,
            percent_change_24h |-> c.percent_change_24h + d]
  IN UNION { { [sym \in present |-> QuoteOf(sym, drift[sym])] :
                 drift \in [present -> QuoteDrifts] } : present \in SUBSET syms }

\* ------------------------------------------------------------ apiHelpers
\* getAdditionalPercentChanges, after the quotes call: ok is FALSE when the
\* call threw; data is the symbol-keyed body.
AdditionalPercentChanges(ok, data) ==
  IF ~ok THEN [sym \in {} |-> 0]
  ELSE [sym \in DOMAIN data |->
          [percentChange5m |-> data[sym].percent_change_1h \div 12,
           percentChange1h |-> data[sym].percent_change_1h,
           percentChange6h |-> data[sym].percent_change_24h \div 4,
           percentChange24h |-> data[sym].percent_change_24h]]

\* ------------------------------------------------- cryptocurrenciesController
ChangeKey(w) ==
  CASE w = "5m" -> "percentChange5m"
    [] w = "1h" -> "percentChange1h"
    [] w = "6h" -> "percentChange6h"
    [] w = "24h" -> "percentChange24h"
    [] w = "7d" -> "percentChange7d"
    [] w = "30d" -> "percentChange30d"

\* The object used when percentChangeData has no entry for the symbol.
FallbackChanges(quote) ==
  [percentChange5m |-> 0,
   percentChange1h |-> quote.percent_change_1h,
   percentChange6h |-> quote.percent_change_24h \div 4,
   percentChange24h |-> quote.percent_change_24h,
   percentChange7d |-> quote.percent_change_7d,
   percentChange30d |-> quote.percent_change_30d]

TransformOneOneBased(crypto, percentChangeData, startIndex, position) ==
  LET changes == IF crypto.symbol \in DOMAIN percentChangeData
                   THEN percentChangeData[crypto.symbol]
                   ELSE FallbackChanges(crypto)
  IN [id |-> crypto.id,
      name |-> crypto.name,
      symbol |-> crypto.symbol,
      price |-> crypto.price,
      market_cap |-> crypto.market_cap,
      volume_24h |-> crypto.volume_24h,
      raw_percent_change |->
        [w \in {v \in Windows : ChangeKey(v) \in DOMAIN changes} |-> changes[ChangeKey(w)]],
      index |-> startIndex + position + 1]

\* One element of the map in transformCryptoData; position is 0-based.
\* The display strings (logo, formatted_*) and the rounded percent_change
\* block are derived from the fields kept here and are left out.
TransformOne(crypto, percentChangeData, startIndex, position) ==
  LET changes == IF crypto.symbol \in DOMAIN percentChangeData
                   THEN percentChangeData[crypto.symbol]
                   ELSE FallbackChanges(crypto)
  IN [id |-> crypto.id,
      name |-> crypto.name,
      symbol |-> crypto.symbol,
      price |-> crypto.price,
      market_cap |-> crypto.market_cap,
      volume_24h |-> crypto.volume_24h,
      raw_percent_change |->
        [w \in {v \in Windows : ChangeKey(v) \in DOMAIN changes} |-> changes[ChangeKey(w)]],
      index |-> startIndex + position]

transformCryptoDataReversed(cryptoData, percentChangeData, startIndex) ==
  [k \in 1..Len(cryptoData) |->
     TransformOne(cryptoData[Len(cryptoData) + 1 - k], percentChangeData, startIndex, k - 1)]

transformCryptoData(cryptoData, percentChangeData, startIndex) ==
  [k \in 1..Len(cryptoData) |->
     TransformOne(cryptoData[k], percentChangeData, startIndex, k - 1)]

PageOfFollowing(options) == IF options.page = 0 THEN 1 ELSE options.page + 1

\* options.page || 1 and options.limit || 10 (0 stands for an absent number)
PageOf(options) == IF options.page = 0 THEN 1 ELSE options.page

LimitOf(options) == IF options.limit = 0 THEN 10 ELSE options.limit

PercentChangeSort(sortPeriod) ==
  IF sortPeriod = "1h" THEN "percent_change_1h"
  ELSE IF sortPeriod = "24h" THEN "percent_change_24h"
  ELSE IF sortPeriod = "7d" THEN "percent_change_7d"
  ELSE IF sortPeriod = "30d" THEN "percent_change_30d"
  ELSE "percent_change_24h"

SortByField(options) ==
  IF options.sortBy = Undefined THEN "market_cap"
  ELSE CASE options.sortBy = "market_cap" -> "market_cap"
         [] options.sortBy = "price" -> "price"
         [] options.sortBy = "volume_24h" -> "volume_24h"
         [] options.sortBy = "percent_change" -> PercentChangeSort(options.sortPeriod)
         [] OTHER -> "market_cap"

FilterSortNearestWindow(period) ==
  IF period \in {"1h", "5m", "6h"} THEN "percent_change_1h"
  ELSE IF period = "7d" THEN "percent_change_7d"
  ELSE IF period = "30d" THEN "percent_change_30d"
  ELSE "percent_change_24h"

\* The branches for trending, gainers and the time-period filters.
FilterSort(period) ==
  IF period = "1h" THEN "percent_change_1h"
  ELSE IF period = "7d" THEN "percent_change_7d"
  ELSE IF period = "30d" THEN "percent_change_30d"
  ELSE "percent_change_24h"

SortDirAlwaysDesc(options) == "desc"

SortDirOf(options) ==
  IF options.sortDirection # Undefined THEN options.sortDirection ELSE "desc"

buildApiParamsSortByWins(options) ==
  LET start == (PageOf(options) - 1) * LimitOf(options) + 1
      base == [start |-> start, limit |-> LimitOf(options), convert |-> "USD",
               sort |-> SortByField(options), sort_dir |-> SortDirOf(options)]
  IN IF options.filter = Undefined \/ options.sortBy # Undefined THEN base
     ELSE IF options.filter \in {"trending", "gainers"}
       THEN [base EXCEPT !.sort = FilterSort(options.sortPeriod), !.sort_dir = "desc"]
     ELSE IF options.filter \in {"5m", "1h", "6h", "24h", "7d", "30d"}
       THEN [base EXCEPT !.sort = FilterSort(options.filter), !.sort_dir = SortDirOf(options)]
     ELSE base

buildApiParams(options) ==
  LET start == (PageOf(options) - 1) * LimitOf(options) + 1
      base == [start |-> start, limit |-> LimitOf(options), convert |-> "USD",
               sort |-> SortByField(options), sort_dir |-> SortDirOf(options)]
  IN IF options.filter = Undefined THEN base
     ELSE IF options.filter \in {"trending", "gainers"}
       THEN [base EXCEPT !.sort = FilterSort(options.sortPeriod), !.sort_dir = "desc"]
     ELSE IF options.filter \in {"5m", "1h", "6h", "24h", "7d", "30d"}
       THEN [base EXCEPT !.sort = FilterSort(options.filter), !.sort_dir = SortDirOf(options)]
     ELSE base

\* periodField of the gainers branch
PeriodField(options) ==
  IF options.sortPeriod \in {"1h", "6h", "5m", "7d", "30d"} THEN options.sortPeriod ELSE "24h"

IsNonNegative(crypto, periodField) ==
  periodField \in DOMAIN crypto.raw_percent_change
  /\ crypto.raw_percent_change[periodField] >= 0

\* crypto.raw_percent_change[periodField] > 0 (undefined > 0 is false)
IsPositive(crypto, periodField) ==
  periodField \in DOMAIN crypto.raw_percent_change
  /\ crypto.raw_percent_change[periodField] > 0

GainersFilter(options, transformedData) ==
  IF options.filter = "gainers"
    THEN LET Keep(crypto) == IsPositive(crypto, PeriodField(options))
         IN SelectSeq(transformedData, Keep)
    ELSE transformedData

\* options.search && options.search.trim()
SearchApplies(options) ==
  options.search # UndefinedStr /\ options.search # <<>> /\ Trim(options.search) # <<>>

MatchesCaseSensitive(crypto, searchTerm) ==
  \/ Includes(crypto.name, searchTerm)
  \/ Includes(crypto.symbol, searchTerm)

Matches(crypto, searchTerm) ==
  \/ Includes(ToLowerCase(crypto.name), searchTerm)
  \/ Includes(ToLowerCase(crypto.symbol), searchTerm)

SearchFilter(options, transformedData) ==
  IF SearchApplies(options)
    THEN LET searchTerm == Trim(ToLowerCase(options.search))
             Keep(crypto) == Matches(crypto, searchTerm)
         IN SelectSeq(transformedData, Keep)
    ELSE transformedData

Floor(a, b) == a \div b

\* Math.ceil(a / b) for a >= 0, b >= 1
Ceil(a, b) == (a + b - 1) \div b

\* (options.filter === 'gainers' || options.search)
UsesFilteredCount(options) ==
  options.filter = "gainers" \/ (options.search # UndefinedStr /\ options.search # <<>>)

PaginationNextInclusive(options, total_count, transformedData) ==
  LET actualTotalItems == IF UsesFilteredCount(options)
                            THEN Len(transformedData) ELSE total_count
      totalPages == Ceil(actualTotalItems, LimitOf(options))
  IN [total_items |-> actualTotalItems,
      total_pages |-> totalPages,
      current_page |-> PageOf(options),
      page_size |-> LimitOf(options),
      has_next_page |-> PageOf(options) <= totalPages,
      has_previous_page |-> PageOf(options) > 1]

Pagination(options, total_count, transformedData) ==
  LET actualTotalItems == IF UsesFilteredCount(options)
                            THEN Len(transformedData) ELSE total_count
      totalPages == Ceil(actualTotalItems, LimitOf(options))
  IN [total_items |-> actualTotalItems,
      total_pages |-> totalPages,
      current_page |-> PageOf(options),
      page_size |-> LimitOf(options),
      has_next_page |-> PageOf(options) < totalPages,
      has_previous_page |-> PageOf(options) > 1]

\* ------------------------------------------------------ dashboardController
\* (req.query.sortDirection)?.toLowerCase() === 'asc' ? 'asc' : 'desc'
MasterSortDirection(q) == IF q.sortDirection \in {"asc", "ASC"} THEN "asc" ELSE "desc"

\* (req.query.search)?.toLowerCase() || ''
MasterSearch(q) == IF q.search = UndefinedStr THEN <<>> ELSE ToLowerCase(q.search)

MasterSortBy(q) == IF q.sortBy = Undefined THEN "market_cap" ELSE q.sortBy

MasterSortPeriod(q) == IF q.sortPeriod = Undefined THEN "24h" ELSE q.sortPeriod

MasterValidationNoSortBy(q) ==
  IF MasterSortPeriod(q) \notin VALID_TIME_PERIODS THEN "Invalid sort period"
  ELSE IF q.filter # Undefined /\ q.filter \notin VALID_FILTERS THEN "Invalid filter"
  ELSE "ok"

\* The three checks of getMasterData, in order; "ok" when all pass.
MasterValidation(q) ==
  IF MasterSortPeriod(q) \notin VALID_TIME_PERIODS THEN "Invalid sort period"
  ELSE IF q.filter # Undefined /\ q.filter \notin VALID_FILTERS THEN "Invalid filter"
  ELSE IF MasterSortBy(q) \notin VALID_SORT_FIELDS THEN "Invalid sort field"
  ELSE "ok"

\* The object literal handed to getCryptoData: the period goes in under the
\* key period, so sortPeriod stays undefined.
MasterOptions(q) ==
  [page |-> IF q.page = 0 THEN 1 ELSE q.page,
   limit |-> IF q.limit = 0 THEN 10 ELSE q.limit,
   period |-> MasterSortPeriod(q),
   filter |-> q.filter,
   sortBy |-> MasterSortBy(q),
   sortPeriod |-> Undefined,
   sortDirection |-> MasterSortDirection(q),
   search |-> MasterSearch(q)]

\* ------------------------------------------------------------------ inputs
Pages == 1..MaxPage

Limits == 1..MaxLimit

SearchTerms == { UndefinedStr, <<" ">>, <<" ","B","i","T">>, <<"x">> }

OptionsSpace ==
  [page : Pages, limit : Limits, period : {Undefined},
   filter : {Undefined} \cup VALID_FILTERS,
   sortBy : {Undefined} \cup VALID_SORT_FIELDS,
   sortPeriod : {Undefined} \cup VALID_TIME_PERIODS,
   sortDirection : {Undefined, "asc", "desc"},
   search : SearchTerms]

QuerySpace ==
  [page : Pages, limit : Limits,
   filter : {Undefined, "losers"} \cup VALID_FILTERS,
   sortBy : {Undefined, "rank"} \cup VALID_SORT_FIELDS,
   sortPeriod : {Undefined, "1y"} \cup VALID_TIME_PERIODS,
   sortDirection : {Undefined, "ASC", "desc"},
   search : SearchTerms]

\* Master requests that carry page and limit values inside and outside the
\* documented ranges (0 is the literal value 0) and nothing else.
QueryRangeSpace ==
  [page : {-1, 0, 1}, limit : {-1, 0, 1, 101},
   filter : {Undefined}, sortBy : {Undefined}, sortPeriod : {Undefined},
   sortDirection : {Undefined}, search : {UndefinedStr}]

\* Directives of the calls that are issued twice.
RepeatOptionsSpace ==
  [page : Pages, limit : Limits, period : {Undefined},
   filter : {Undefined, "trending", "gainers", "6h"},
   sortBy : {Undefined},
   sortPeriod : {Undefined, "5m", "7d"},
   sortDirection : {Undefined},
   search : SearchTerms]

NoOptions ==
  [page |-> 0, limit |-> 0, period |-> Undefined, filter |-> Undefined,
   sortBy |-> Undefined, sortPeriod |-> Undefined, sortDirection |-> Undefined,
   search |-> UndefinedStr]

NoQuery ==
  [page |-> 0, limit |-> 0, filter |-> Undefined, sortBy |-> Undefined,
   sortPeriod |-> Undefined, sortDirection |-> Undefined, search |-> UndefinedStr]

NoParams == [start |-> 0, limit |-> 0, convert |-> "USD", sort |-> Undefined, sort_dir |-> Undefined]

NoListings == [data |-> <<>>, status |-> [total_count |-> 0]]

NoResult ==
  [data |-> <<>>,
   pagination |-> [total_items |-> 0, total_pages |-> 0, current_page |-> 0,
                   page_size |-> 0, has_next_page |-> FALSE, has_previous_page |-> FALSE]]

NoError == [statusCode |-> 0, code |-> "none"]

NoNet ==
  [listingsCalls |-> 0, quotesCalls |-> 0, listings |-> "none", quotes |-> "none",
   symbol |-> <<>>]

NoPrev ==
  [set |-> FALSE, options |-> NoOptions, universe |-> {},
   percentChangeData |-> <<>>, result |-> NoResult]

\* Values of req.params.symbol
ReqSymbols == { <<"b","t","c">>, <<"B","T","C">>, <<"L","t","c">>, <<"x">> }

\* The limit getCryptocurrencyBySymbol asks getCryptoData for: 100 in one
\* version of the controller, 5 (through getLegacyCryptoData) in the other
LookupLimits == {100, 5}

\* Arguments of transformCryptoData called on its own: any sequence of
\* listings (repeats and any order allowed), a mapping with entries for any
\* set of symbols, any startIndex
ListingInputs ==
  UNION { [1..n -> {Catalogue[i] : i \in CoinIds}] : n \in 0..MaxListing }

MappingInputs ==
  { AdditionalPercentChanges(TRUE, [sym \in syms |->
        LET c == CHOOSE c \in {Catalogue[i] : i \in CoinIds} : c.symbol = sym
        IN [percent_change_1h |-> c.percent_change_1h,
            percent_change_24h |-> c.percent_change_24h]]) :
      syms \in SUBSET {Catalogue[i].symbol : i \in CoinIds} }

StartIndexes == 0..MaxStartIndex

\* Directives of the two calls that are in flight together
ConcurrentOptionsSpace ==
  [page : Pages, limit : Limits, period : {Undefined},
   filter : {Undefined, "gainers"},
   sortBy : {Undefined}, sortPeriod : {Undefined}, sortDirection : {Undefined},
   search : {UndefinedStr}]

\* req of a request that reached no controller yet
NoReq == [symbol |-> UndefinedStr, page |-> 0, limit |-> 0]

\* res before anything was sent
NoRes == [statusCode |-> 0, body |-> <<>>]

\* A second getCryptoData call that has not started
NoPeer ==
  [pc |-> "idle", options |-> NoOptions, params |-> NoParams,
   response |-> NoListings, percentChangeData |-> <<>>, result |-> NoResult]

\* ------------------------------------------------------- error middleware
Null == "null"

Has(obj, key) == key \in DOMAIN obj

\* Values of new Date() at the moment a response is written
Clock == {1, 2}

\* The message the code gives to an ApiError of each code
MessageOf(code) ==
  CASE code = "EXTERNAL_API_ERROR" ->
         "Failed to fetch cryptocurrency data from CoinMarketCap API"
    [] code = "BAD_REQUEST" -> "Invalid sort period, filter or sort field"
    [] code = "NOT_FOUND" -> "Cryptocurrency with symbol not found"
    [] OTHER -> ""

\* The Error object behind an error value: every Error carries a message
\* and a stack besides what the constructor assigned.
Thrown(e) ==
  [k \in DOMAIN e \cup {"message", "stack"} |->
     IF k \in DOMAIN e THEN e[k]
     ELSE IF k = "message" THEN MessageOf(e.code)
     ELSE "Error: at getCryptoData"]

\* errorHandler of middleware/errorHandler.ts
errorHandler(err, now) ==
  LET statusCode == IF Has(err, "statusCode") /\ err.statusCode # 0
                      THEN err.statusCode ELSE 500
      errorCode == IF Has(err, "code") /\ err.code # ""
                     THEN err.code ELSE "INTERNAL_SERVER_ERROR"
      message == IF err.message # "" THEN err.message
                 ELSE "An unexpected error occurred"
  IN [statusCode |-> statusCode,
      body |-> [status |-> [timestamp |-> now,
                            error_code |-> statusCode,
                            error_message |-> message,
                            code |-> errorCode],
                data |-> Null]]

\* errorHandler of the other middleware file, which reads err.status and
\* answers with the message and, outside production, the stack
errorHandlerWithStack(err, production) ==
  LET statusCode == IF Has(err, "status") /\ err.status # 0
                      THEN err.status ELSE 500
  IN [statusCode |-> statusCode,
      body |-> [message |-> err.message,
                stack |-> IF production THEN "pancakes" ELSE err.stack]]

\* ------------------------------------------------------------------- state
VARIABLES
  universe,           \* ids of the listings the provider currently holds
  pc,                 \* "idle", "listings", "quotes", "done", "error"
  via,                \* entry point of the request: "none", "direct", "master"
  query,              \* req.query of the master request
  options,            \* FilterOptions passed to getCryptoData
  params,             \* parameters of the listings call in flight
  response,           \* body of the listings response
  symbols,            \* symbol list of the quotes call
  percentChangeData,  \* result of getAdditionalPercentChanges
  transformed,        \* transformedData right after transformCryptoData
  result,             \* value returned by getCryptoData
  error,              \* ApiError thrown to the caller
  net,                \* outbound calls of the request: how many were issued
                      \* and how each ended ("none", "ok", "failed")
  prev,               \* what the caller kept of its previous getCryptoData
                      \* call when it issues the same call again
  req,                \* req.params and req.query of a controller request
  res,                \* what the controller or the error middleware sent
  peer                \* locals of a second getCryptoData call in flight

vars == << universe, pc, via, query, options, params, response, symbols,
           percentChangeData, transformed, result, error, net, prev,
           req, res, peer >>

Init ==
  /\ universe \in Universes
  /\ pc = "idle"
  /\ via = "none"
  /\ query = NoQuery
  /\ options = NoOptions
  /\ params = NoParams
  /\ response = NoListings
  /\ symbols = <<>>
  /\ percentChangeData = <<>>
  /\ transformed = <<>>
  /\ result = NoResult
  /\ error = NoError
  /\ net = NoNet
  /\ prev = NoPrev
  /\ req = NoReq
  /\ res = NoRes
  /\ peer = NoPeer

CallGetCryptoDataInParallel(o) ==
  /\ options' = o
  /\ params' = buildApiParams(o)
  /\ pc' = "listings"
  /\ net' = [net EXCEPT !.listingsCalls = @ + 1, !.quotesCalls = @ + 1]
  /\ UNCHANGED << universe, response, symbols, percentChangeData, transformed, result, error, prev >>
  /\ UNCHANGED << res, peer >>

\* getCryptoData up to the await of the listings call
CallGetCryptoData(o) ==
  /\ options' = o
  /\ params' = buildApiParams(o)
  /\ pc' = "listings"
  /\ net' = [net EXCEPT !.listingsCalls = @ + 1]
  /\ UNCHANGED << universe, response, symbols, percentChangeData, transformed, result, error, prev >>
  /\ UNCHANGED << res, peer >>

\* A direct call getCryptoData(options) that the caller will issue twice
GetCryptoDataFirst ==
  /\ pc = "idle"
  /\ \E o \in RepeatOptionsSpace : CallGetCryptoData(o)
  /\ via' = "direct"
  /\ UNCHANGED << query, req >>

\* The caller keeps the first result and calls getCryptoData again with the
\* identical options; the provider's snapshot may have changed meanwhile.
\* What the first call left behind stays until the second call assigns it.
GetCryptoDataAgain ==
  /\ pc = "done"
  /\ ~prev.set
  /\ prev' = [set |-> TRUE, options |-> options, universe |-> universe,
              percentChangeData |-> percentChangeData, result |-> result]
  /\ universe' \in {universe, {}}
  /\ params' = buildApiParams(options)
  /\ pc' = "listings"
  /\ net' = [NoNet EXCEPT !.listingsCalls = 1]
  /\ UNCHANGED << via, query, options, response, symbols, percentChangeData,
                  transformed, result, error, req, res, peer >>

\* A direct call getCryptoData(options)
GetCryptoData ==
  /\ pc = "idle"
  /\ \E o \in OptionsSpace : CallGetCryptoData(o)
  /\ via' = "direct"
  /\ UNCHANGED << query, req >>

\* GET /api/master with valid parameters
GetMasterData ==
  /\ pc = "idle"
  /\ \E q \in QuerySpace :
       /\ MasterValidation(q) = "ok"
       /\ query' = q
       /\ CallGetCryptoData(MasterOptions(q))
  /\ via' = "master"
  /\ UNCHANGED req

\* GET /api/master rejected by ApiError.badRequest
GetMasterDataInvalid ==
  /\ pc = "idle"
  /\ \E q \in QuerySpace :
       /\ MasterValidation(q) # "ok"
       /\ query' = q
  /\ via' = "master"
  /\ pc' = "error"
  /\ error' = [statusCode |-> 400, code |-> "BAD_REQUEST"]
  /\ UNCHANGED << universe, options, params, response, symbols, percentChangeData,
                  transformed, result, net, prev, req, res, peer >>

\* GET /api/master with only page and limit given
GetMasterDataRange ==
  /\ pc = "idle"
  /\ \E q \in QueryRangeSpace :
       /\ MasterValidation(q) = "ok"
       /\ query' = q
       /\ CallGetCryptoData(MasterOptions(q))
  /\ via' = "master"
  /\ UNCHANGED req

\* The listings call resolves; the quotes call is issued.  The provider
\* answers only a request whose start and limit are at least 1.
ListingsResponse ==
  /\ pc = "listings"
  /\ params.start >= 1
  /\ params.limit >= 1
  /\ response' = ListingsLatest(universe, params)
  /\ symbols' = [k \in 1..Len(response'.data) |-> response'.data[k].symbol]
  /\ net' = [net EXCEPT !.listings = "ok", !.quotesCalls = @ + 1,
                        !.symbol = Join(symbols')]
  /\ pc' = "quotes"
  /\ UNCHANGED << universe, via, query, options, params, percentChangeData,
                  transformed, result, error, prev, req, res, peer >>

ListingsFailureAsEmptyPage ==
  /\ pc = "listings"
  /\ pc' = "quotes"
  /\ net' = [net EXCEPT !.listings = "failed", !.quotesCalls = @ + 1]
  /\ response' = NoListings
  /\ symbols' = <<>>
  /\ UNCHANGED << universe, via, query, options, params, percentChangeData,
                  transformed, result, error, prev, req, res, peer >>

\* The listings call rejects; the catch block rethrows an ApiError.
ListingsFailure ==
  /\ pc = "listings"
  /\ pc' = "error"
  /\ error' = [statusCode |-> 500, code |-> "EXTERNAL_API_ERROR"]
  /\ net' = [net EXCEPT !.listings = "failed"]
  /\ UNCHANGED << universe, via, query, options, params, response, symbols,
                  percentChangeData, transformed, result, prev, req, res, peer >>

TransformedAccumulating(opts, resp, pcd) ==
  LET start == (PageOf(opts) - 1) * LimitOf(opts) + 1
  IN transformed \o transformCryptoData(resp.data, pcd, start - 1)

\* transformedData as first assigned in getCryptoData
Transformed(opts, resp, pcd) ==
  LET start == (PageOf(opts) - 1) * LimitOf(opts) + 1
  IN transformCryptoData(resp.data, pcd, start - 1)

\* The value getCryptoData returns for a listings response and an
\* enrichment mapping.
GetCryptoDataResult(opts, resp, pcd) ==
  LET t2 == SearchFilter(opts, GainersFilter(opts, Transformed(opts, resp, pcd)))
  IN [data |-> t2,
      pagination |-> Pagination(opts, resp.status.total_count, t2)]

\* The rest of getCryptoData once percentChangeData is known.
Finish(pcd) ==
  /\ percentChangeData' = pcd
  /\ transformed' = Transformed(options, response, pcd)
  /\ result' = GetCryptoDataResult(options, response, pcd)
  /\ pc' = "done"
  /\ UNCHANGED << universe, via, query, options, params, response, symbols, error, prev >>
  /\ UNCHANGED << req, res, peer >>

QuotesResponse ==
  /\ pc = "quotes"
  /\ net' = [net EXCEPT !.quotes = "ok"]
  /\ \E data \in QuotesLatestResponses(response.data) :
       Finish(AdditionalPercentChanges(TRUE, data))

QuotesFailurePropagates ==
  /\ pc = "quotes"
  /\ net' = [net EXCEPT !.quotes = "failed"]
  /\ pc' = "error"
  /\ error' = [statusCode |-> 500, code |-> "EXTERNAL_API_ERROR"]
  /\ UNCHANGED << universe, via, query, options, params, response, symbols,
                  percentChangeData, transformed, result, prev, req, res, peer >>

\* The quotes call rejects; getAdditionalPercentChanges returns {}.

QuotesFailure ==
  /\ pc = "quotes"
  /\ net' = [net EXCEPT !.quotes = "failed"]
  /\ Finish(AdditionalPercentChanges(FALSE, <<>>))

\* The handler has answered; the next request starts from scratch.
Return ==
  /\ pc \in {"done", "error"}
  /\ pc' = "idle"
  /\ via' = "none"
  /\ query' = NoQuery
  /\ options' = NoOptions
  /\ params' = NoParams
  /\ response' = NoListings
  /\ symbols' = <<>>
  /\ percentChangeData' = <<>>
  /\ transformed' = <<>>
  /\ result' = NoResult
  /\ error' = NoError
  /\ net' = NoNet
  /\ prev' = NoPrev
  /\ req' = NoReq
  /\ res' = NoRes
  /\ UNCHANGED << universe, peer >>

\* transformCryptoData(cryptoData, percentChangeData, startIndex) called on
\* its own; start - 1 is the startIndex.
TransformCryptoData ==
  /\ pc = "idle"
  /\ \E cryptoData \in ListingInputs, pcd \in MappingInputs, startIndex \in StartIndexes :
       /\ response' = [data |-> cryptoData, status |-> [total_count |-> Len(cryptoData)]]
       /\ percentChangeData' = pcd
       /\ params' = [NoParams EXCEPT !.start = startIndex + 1]
       /\ transformed' = transformCryptoData(cryptoData, pcd, startIndex)
  /\ via' = "transform"
  /\ pc' = "done"
  /\ UNCHANGED << universe, query, options, symbols, result, error, net, prev, req, res, peer >>

\* ------------------------------------------------ two calls in flight
\* One getCryptoData call of a pair that runs concurrently
GetCryptoDataConcurrent ==
  /\ pc = "idle"
  /\ \E o \in ConcurrentOptionsSpace : CallGetCryptoData(o)
  /\ via' = "concurrent"
  /\ UNCHANGED << query, req >>

\* The other call of the pair: the same code, with locals of its own
PeerGetCryptoData ==
  /\ peer.pc = "idle"
  /\ \E o \in ConcurrentOptionsSpace :
       peer' = [peer EXCEPT !.pc = "listings", !.options = o, !.params = buildApiParams(o)]
  /\ UNCHANGED << universe, pc, via, query, options, params, response, symbols,
                  percentChangeData, transformed, result, error, net, prev, req, res >>

PeerListingsResponse ==
  /\ peer.pc = "listings"
  /\ peer' = [peer EXCEPT !.pc = "quotes",
                          !.response = ListingsLatest(universe, peer.params)]
  /\ UNCHANGED << universe, pc, via, query, options, params, response, symbols,
                  percentChangeData, transformed, result, error, net, prev, req, res >>

PeerListingsFailure ==
  /\ peer.pc = "listings"
  /\ peer' = [peer EXCEPT !.pc = "error"]
  /\ UNCHANGED << universe, pc, via, query, options, params, response, symbols,
                  percentChangeData, transformed, result, error, net, prev, req, res >>

PeerFinishSharedResponse(pcd) ==
  /\ peer' = [peer EXCEPT !.pc = "done",
                          !.percentChangeData = pcd,
                          !.result = GetCryptoDataResult(peer.options, response, pcd)]
  /\ UNCHANGED << universe, pc, via, query, options, params, response, symbols,
                  percentChangeData, transformed, result, error, net, prev, req, res >>

\* The rest of the other call once its percentChangeData is known
PeerFinish(pcd) ==
  /\ peer' = [peer EXCEPT !.pc = "done",
                          !.percentChangeData = pcd,
                          !.result = GetCryptoDataResult(peer.options, peer.response, pcd)]
  /\ UNCHANGED << universe, pc, via, query, options, params, response, symbols,
                  percentChangeData, transformed, result, error, net, prev, req, res >>

PeerQuotesResponse ==
  /\ peer.pc = "quotes"
  /\ \E data \in QuotesLatestResponses(peer.response.data) :
       PeerFinish(AdditionalPercentChanges(TRUE, data))

PeerQuotesFailure ==
  /\ peer.pc = "quotes"
  /\ PeerFinish(AdditionalPercentChanges(FALSE, <<>>))

\* The other call's caller has its value or its error
PeerReturn ==
  /\ peer.pc \in {"done", "error"}
  /\ peer' = NoPeer
  /\ UNCHANGED << universe, pc, via, query, options, params, response, symbols,
                  percentChangeData, transformed, result, error, net, prev, req, res >>

\* buildApiParams(options) called on its own
BuildApiParams ==
  /\ pc = "idle"
  /\ \E o \in OptionsSpace :
       /\ options' = o
       /\ params' = buildApiParams(o)
  /\ via' = "params"
  /\ pc' = "done"
  /\ UNCHANGED << universe, query, response, symbols, percentChangeData, transformed,
                  result, error, net, prev, req, res, peer >>

\* ------------------------------------------------- controllers, middleware
\* A request for a path no route serves: notFoundHandler passes
\* ApiError.notFound to the error middleware.
NotFoundHandler ==
  /\ pc = "idle"
  /\ pc' = "error"
  /\ via' = "route"
  /\ error' = [statusCode |-> 404, code |-> "NOT_FOUND",
               message |-> "Route not found: GET /nowhere",
               stack |-> "Error: at notFoundHandler"]
  /\ UNCHANGED << universe, query, options, params, response, symbols,
                  percentChangeData, transformed, result, net, prev, req, res, peer >>

\* notFoundHandler of the other middleware file: a plain Error with status
NotFoundHandlerWithStatus ==
  /\ pc = "idle"
  /\ pc' = "error"
  /\ via' = "route"
  /\ error' = [status |-> 404, message |-> "Not Found - /nowhere",
               stack |-> "Error: at notFoundHandler"]
  /\ UNCHANGED << universe, query, options, params, response, symbols,
                  percentChangeData, transformed, result, net, prev, req, res, peer >>

\* GET /api/master?search=a&search=b: req.query.search is an array, so
\* toLowerCase is not a function; the catch block passes the TypeError on.
GetMasterDataThrows ==
  /\ pc = "idle"
  /\ pc' = "error"
  /\ via' = "master"
  /\ error' = [message |-> "req.query.search?.toLowerCase is not a function",
               stack |-> "TypeError: at getMasterData"]
  /\ UNCHANGED << universe, query, options, params, response, symbols,
                  percentChangeData, transformed, result, net, prev, req, res, peer >>

\* res.json(paginatedResponse) of getMasterData
GetMasterDataRespond ==
  /\ pc = "done"
  /\ via = "master"
  /\ \E now \in Clock :
       res' = [statusCode |-> 200,
               body |-> [status |-> [timestamp |-> now, error_code |-> 0,
                                     error_message |-> Null],
                         data |-> result.data,
                         pagination |-> result.pagination,
                         filter |-> IF query.filter = Undefined THEN Null
                                    ELSE query.filter,
                         sort |-> [by |-> MasterSortBy(query),
                                   period |-> MasterSortPeriod(query),
                                   direction |-> MasterSortDirection(query)],
                         search |-> IF MasterSearch(query) = <<>> THEN <<"null">>
                                    ELSE MasterSearch(query)]]
  /\ pc' = "answered"
  /\ UNCHANGED << universe, via, query, options, params, response, symbols,
                  percentChangeData, transformed, result, error, net, prev, req, peer >>

LookupSymbolAsTyped(r) == r.symbol

\* const symbol = req.params.symbol.toUpperCase()
LookupSymbol(r) == ToUpperCase(r.symbol)

\* Array.prototype.find on the symbol: the position of the first match,
\* 0 when there is none
FindBySymbol(data, symbol) ==
  LET hits == { k \in 1..Len(data) : data[k].symbol = symbol }
  IN IF hits = {} THEN 0 ELSE CHOOSE k \in hits : \A j \in hits : k <= j

\* GET /api/cryptocurrencies/:symbol up to the await of getCryptoData
GetCryptocurrencyBySymbol ==
  /\ pc = "idle"
  /\ \E s \in ReqSymbols : req' = [NoReq EXCEPT !.symbol = s]
  /\ \E lim \in LookupLimits : CallGetCryptoData([NoOptions EXCEPT !.limit = lim])
  /\ via' = "symbol"
  /\ UNCHANGED query

\* getCryptocurrencyBySymbol after getCryptoData returned: find, then
\* res.json or ApiError.notFound.
GetCryptocurrencyBySymbolRespond ==
  /\ pc = "done"
  /\ via = "symbol"
  /\ LET at == FindBySymbol(result.data, LookupSymbol(req))
     IN IF at = 0
          THEN /\ pc' = "error"
               /\ error' = [statusCode |-> 404, code |-> "NOT_FOUND"]
               /\ UNCHANGED res
          ELSE /\ pc' = "answered"
               /\ \E now \in Clock :
                    res' = [statusCode |-> 200,
                            body |-> [status |-> [timestamp |-> now, error_code |-> 0,
                                                  error_message |-> Null],
                                      data |-> result.data[at]]]
               /\ UNCHANGED error
  /\ UNCHANGED << universe, via, query, options, params, response, symbols,
                  percentChangeData, transformed, result, net, prev, req, peer >>

\* Array.prototype.sort with (a, b) => b.raw_percent_change['24h'] -
\* a.raw_percent_change['24h']: descending, equal keys keep their order
RECURSIVE SortDesc24h(_)
SortDesc24h(data) ==
  IF data = <<>> THEN <<>>
  ELSE LET top == CHOOSE k \in 1..Len(data) :
                    /\ \A j \in 1..Len(data) :
                         data[j].raw_percent_change["24h"] <= data[k].raw_percent_change["24h"]
                    /\ \A j \in 1..(k - 1) :
                         data[j].raw_percent_change["24h"] < data[k].raw_percent_change["24h"]
       IN <<data[top]>> \o
          SortDesc24h(SubSeq(data, 1, top - 1) \o SubSeq(data, top + 1, Len(data)))

\* gainers of getGainerCryptocurrencies: filter on a positive 24h change,
\* then sort
GainersOf(data) ==
  SortDesc24h(SelectSeq(data, LAMBDA crypto : crypto.raw_percent_change["24h"] > 0))

\* The pagination block getGainerCryptocurrencies sends: the block of
\* getCryptoData with total_items and total_pages replaced
GainersPagination(pagination, gainers, limit) ==
  [pagination EXCEPT !.total_items = Len(gainers),
                     !.total_pages = Ceil(Len(gainers), limit)]

\* GET /api/gainers?page=&limit= up to the await of getCryptoData
GetGainerCryptocurrencies ==
  /\ pc = "idle"
  /\ \E p \in Pages, l \in Limits :
       /\ req' = [NoReq EXCEPT !.page = p, !.limit = l]
       /\ CallGetCryptoData([NoOptions EXCEPT !.page = p, !.limit = l])
  /\ via' = "gainers"
  /\ UNCHANGED query

\* getGainerCryptocurrencies after getCryptoData returned
GetGainerCryptocurrenciesRespond ==
  /\ pc = "done"
  /\ via = "gainers"
  /\ \E now \in Clock :
       LET gainers == GainersOf(result.data)
       IN res' = [statusCode |-> 200,
                  body |-> [status |-> [timestamp |-> now, error_code |-> 0,
                                        error_message |-> Null],
                            data |-> gainers,
                            pagination |-> GainersPagination(result.pagination, gainers, req.limit),
                            filter |-> "gainers",
                            sort |-> [by |-> "percent_change", period |-> "24h",
                                      direction |-> "desc"],
                            search |-> Null]]
  /\ pc' = "answered"
  /\ UNCHANGED << universe, via, query, options, params, response, symbols,
                  percentChangeData, transformed, result, error, net, prev, req, peer >>

\* The error middleware of middleware/errorHandler.ts answers an error
\* passed to next().
ErrorHandler ==
  /\ pc = "error"
  /\ ~Has(error, "status")
  /\ \E now \in Clock : res' = errorHandler(Thrown(error), now)
  /\ pc' = "answered"
  /\ UNCHANGED << universe, via, query, options, params, response, symbols,
                  percentChangeData, transformed, result, error, net, prev, req, peer >>

\* The error middleware of the other middleware file answers the error its
\* own notFoundHandler raised; NODE_ENV may or may not be production.
ErrorHandlerWithStack ==
  /\ pc = "error"
  /\ Has(error, "status")
  /\ \E production \in BOOLEAN : res' = errorHandlerWithStack(Thrown(error), production)
  /\ pc' = "answered"
  /\ UNCHANGED << universe, via, query, options, params, response, symbols,
                  percentChangeData, transformed, result, error, net, prev, req, peer >>

\* The response is on the wire; the next request starts from scratch.
Close ==
  /\ pc = "answered"
  /\ pc' = "idle"
  /\ via' = "none"
  /\ query' = NoQuery
  /\ options' = NoOptions
  /\ params' = NoParams
  /\ response' = NoListings
  /\ symbols' = <<>>
  /\ percentChangeData' = <<>>
  /\ transformed' = <<>>
  /\ result' = NoResult
  /\ error' = NoError
  /\ net' = NoNet
  /\ prev' = NoPrev
  /\ req' = NoReq
  /\ res' = NoRes
  /\ UNCHANGED << universe, peer >>

Next ==
  \/ GetCryptoData
  \/ ListingsResponse
  \/ ListingsFailure
  \/ QuotesResponse
  \/ QuotesFailure
  \/ Return

Spec == Init /\ [][Next]_vars

\* Requests that enter through the master endpoint.
NextMaster ==
  \/ GetMasterData
  \/ GetMasterDataInvalid
  \/ ListingsResponse
  \/ ListingsFailure
  \/ QuotesResponse
  \/ QuotesFailure
  \/ Return

SpecMaster == Init /\ [][NextMaster]_vars

\* Master requests probing the page and limit ranges.
NextMasterRange ==
  \/ GetMasterDataRange
  \/ ListingsResponse
  \/ ListingsFailure
  \/ QuotesResponse
  \/ QuotesFailure
  \/ Return

SpecMasterRange == Init /\ [][NextMasterRange]_vars

\* The same call issued twice in a row.
NextRepeat ==
  \/ GetCryptoDataFirst
  \/ GetCryptoDataAgain
  \/ ListingsResponse
  \/ ListingsFailure
  \/ QuotesResponse
  \/ QuotesFailure
  \/ Return

SpecRepeat == Init /\ [][NextRepeat]_vars

\* Requests served by the controllers and answered through res.
NextApi ==
  \/ GetMasterDataRange
  \/ GetMasterDataInvalid
  \/ GetMasterDataThrows
  \/ GetMasterDataRespond
  \/ GetCryptocurrencyBySymbol
  \/ GetCryptocurrencyBySymbolRespond
  \/ GetGainerCryptocurrencies
  \/ GetGainerCryptocurrenciesRespond
  \/ NotFoundHandler
  \/ NotFoundHandlerWithStatus
  \/ ListingsResponse
  \/ ListingsFailure
  \/ QuotesResponse
  \/ QuotesFailure
  \/ ErrorHandler
  \/ ErrorHandlerWithStack
  \/ Close

SpecApi == Init /\ [][NextApi]_vars

\* transformCryptoData applied to arbitrary arguments.
NextTransform ==
  \/ TransformCryptoData
  \/ Return

SpecTransform == Init /\ [][NextTransform]_vars

\* Two getCryptoData calls whose steps interleave freely.
NextConcurrent ==
  \/ GetCryptoDataConcurrent
  \/ ListingsResponse
  \/ ListingsFailure
  \/ QuotesResponse
  \/ QuotesFailure
  \/ Return
  \/ PeerGetCryptoData
  \/ PeerListingsResponse
  \/ PeerListingsFailure
  \/ PeerQuotesResponse
  \/ PeerQuotesFailure
  \/ PeerReturn

SpecConcurrent == Init /\ [][NextConcurrent]_vars

\* buildApiParams applied to every directive.
NextParams ==
  \/ BuildApiParams
  \/ Return

SpecParams == Init /\ [][NextParams]_vars

\* ================================================================== claims
Done == pc = "done"

DataIds == { result.data[k].id : k \in 1..Len(result.data) }

\* raw_percent_change[w] is a number greater than 0
Positive(crypto, w) ==
  w \in DOMAIN crypto.raw_percent_change /\ crypto.raw_percent_change[w] > 0

\* The window a directive names: sortPeriod, 24h when none is given.
NamedPeriod(sortPeriod) == IF sortPeriod = Undefined THEN "24h" ELSE sortPeriod

\* The search filter ran: the search string has a non-empty trimmed form.
SearchRan == options.search # UndefinedStr /\ Trim(options.search) # <<>>

\* C1: in every successful result total_pages = ceil(total_items / page_size),
\* and total_pages is 0 exactly when total_items is 0.
C1_TotalPagesIsCeil ==
  Done =>
    LET p == result.pagination
    IN /\ p.total_pages * p.page_size >= p.total_items
       /\ (p.total_pages - 1) * p.page_size < p.total_items
       /\ (p.total_pages = 0 <=> p.total_items = 0)

\* C1 witness: a result whose item count is not a multiple of the page size.
C1_Witness ==
  /\ Done
  /\ result.pagination.total_items = 3
  /\ result.pagination.page_size = 2
  /\ result.pagination.total_pages = 2

\* C2: total_items is the number of records left after local filtering when
\* the gainers filter or the search filter ran, and the upstream total_count
\* in every other case (a blank search string included).
C2_TotalItemsSource ==
  Done =>
    IF options.filter = "gainers" \/ SearchRan
      THEN result.pagination.total_items = Len(result.data)
      ELSE result.pagination.total_items = response.status.total_count

\* C3: the number of returned records is at most limit and equals
\* min(limit, items remaining from current_page).
C3_PageLength ==
  Done =>
    LET p == result.pagination
        left == p.total_items - (p.current_page - 1) * p.page_size
        remaining == IF left < 0 THEN 0 ELSE left
    IN /\ Len(result.data) <= p.page_size
       /\ Len(result.data) = IF p.page_size < remaining THEN p.page_size ELSE remaining

\* C4: with filter=gainers and sortPeriod p (24h when absent) every returned
\* record has raw_percent_change[p] > 0, and when no search filter ran the
\* result is exactly the records of the fetched page with
\* raw_percent_change[p] > 0, in page order.
C4_GainersExact ==
  (Done /\ options.filter = "gainers") =>
    LET p == NamedPeriod(options.sortPeriod)
        Pos(crypto) == Positive(crypto, p)
    IN /\ \A k \in 1..Len(result.data) : Pos(result.data[k])
       /\ ~SearchRan => result.data = SelectSeq(transformed, Pos)

\* C4 witness: a gainers request on the 6h window that kept one record of
\* the page and dropped a non-positive one.
C4_Witness ==
  /\ Done
  /\ options.filter = "gainers"
  /\ options.sortPeriod = "6h"
  /\ ~SearchRan
  /\ Len(transformed) = 2
  /\ Len(result.data) = 1

\* C5: a master request with sortPeriod p resolves p: sortBy=percent_change
\* without filter and p in {1h, 7d, 30d} sorts upstream by percent_change_p,
\* and filter=gainers tests raw_percent_change[p].
C5_MasterPeriod ==
  (via = "master" /\ pc \in {"listings", "quotes", "done"}) =>
    LET p == NamedPeriod(query.sortPeriod)
        Pos(crypto) == Positive(crypto, p)
    IN /\ (query.sortBy = "percent_change" /\ query.filter = Undefined) =>
            /\ p = "1h" => params.sort = "percent_change_1h"
            /\ p = "7d" => params.sort = "percent_change_7d"
            /\ p = "30d" => params.sort = "percent_change_30d"
       /\ (Done /\ query.filter = "gainers" /\ ~SearchRan) =>
            result.data = SelectSeq(transformed, Pos)

\* C6: with a search term whose trimmed form s is non-empty the result is
\* exactly the records of the gainers-filtered page whose lower-cased name
\* or symbol contains lower-cased s.
C6_SearchExact ==
  (Done /\ SearchRan) =>
    LET s == ToLowerCase(Trim(options.search))
        Hit(crypto) == \/ Includes(ToLowerCase(crypto.name), s)
                       \/ Includes(ToLowerCase(crypto.symbol), s)
        Kept(crypto) == /\ Hit(crypto)
                        /\ options.filter = "gainers" =>
                             Positive(crypto, NamedPeriod(options.sortPeriod))
    IN result.data = SelectSeq(transformed, Kept)

\* C6 witness: 'bit' keeps Bitcoin and removes Ethereum.
C6_Witness ==
  /\ Done
  /\ options.search = <<" ","B","i","T">>
  /\ {transformed[k].id : k \in 1..Len(transformed)} = {1, 2}
  /\ DataIds = {1}

\* C7: a record whose symbol is missing from the estimate mapping has
\* raw 1h and 24h equal to the listing's figures, raw 5m = raw 1h / 12 and
\* raw 6h = raw 24h / 4.
C7_FallbackFormulas ==
  Done =>
    \A k \in 1..Len(transformed) :
      transformed[k].symbol \notin DOMAIN percentChangeData =>
        LET raw == transformed[k].raw_percent_change
        IN /\ raw["1h"] = response.data[k].percent_change_1h
           /\ raw["24h"] = response.data[k].percent_change_24h
           /\ raw["5m"] * 12 = raw["1h"]
           /\ raw["6h"] * 4 = raw["24h"]

\* C8: every returned record has a defined number for each of the six
\* windows, whether or not its symbol is in the enrichment mapping.
C8_AllWindowsDefined ==
  Done =>
    \A k \in 1..Len(result.data) :
      DOMAIN result.data[k].raw_percent_change = Windows

C10_DescendingByPeriod ==
  (Done /\ options.filter \in {"trending", "gainers"}) =>
    LET p == NamedPeriod(options.sortPeriod)
    IN \A k \in 1..(Len(result.data) - 1) :
         LET a == result.data[k].raw_percent_change
             b == result.data[k + 1].raw_percent_change
         IN (p \in DOMAIN a /\ p \in DOMAIN b) => a[p] >= b[p]

\* C11: with a valid filter set, a request that differs from the current one
\* only in sortBy sends the same upstream sort field and direction and
\* returns the same data in the same order.
C11_SortByIgnoredUnderFilter ==
  (pc \in {"listings", "quotes", "done"} /\ options.filter \in VALID_FILTERS) =>
    \A sb \in {Undefined} \cup VALID_SORT_FIELDS :
      LET other == [options EXCEPT !.sortBy = sb]
          sent == buildApiParams(other)
      IN /\ sent.sort = params.sort
         /\ sent.sort_dir = params.sort_dir
         /\ Done => GetCryptoDataResult(other, ListingsLatest(universe, sent),
                                        percentChangeData).data = result.data

\* C11 witness: a trending request with sortBy=price was sent upstream with the
\* 24h percent-change field and returned two records.
C11_Witness ==
  /\ Done
  /\ options.filter = "trending"
  /\ options.sortBy = "price"
  /\ params.sort = "percent_change_24h"
  /\ Len(result.data) = 2

\* C12: a master request whose limit is outside 1..100 or whose page is less
\* than 1 is rejected with a 400 INVALID_REQUEST error and no upstream call
\* is made for it.
C12_OutOfRangeRejected ==
  (via = "master" /\ (query.page < 1 \/ query.limit < 1 \/ query.limit > 100)) =>
    /\ pc = "error"
    /\ error.statusCode = 400
    /\ error.code = "INVALID_REQUEST"
    /\ net.listingsCalls = 0
    /\ net.quotesCalls = 0

\* C13: a master request with a filter outside {trending, gainers, 5m, 1h,
\* 6h, 24h, 7d, 30d}, a sortBy outside {market_cap, price, volume_24h,
\* percent_change} or a sortPeriod outside the six time periods ends in a
\* 400 error, and no listings or quotes request is made for it.
C13_InvalidEnumRejected ==
  (/\ via = "master"
   /\ \/ query.filter \notin {Undefined, "trending", "gainers",
                              "5m", "1h", "6h", "24h", "7d", "30d"}
      \/ query.sortBy \notin {Undefined, "market_cap", "price", "volume_24h",
                              "percent_change"}
      \/ query.sortPeriod \notin {Undefined, "5m", "1h", "6h", "24h", "7d", "30d"}) =>
    /\ pc = "error"
    /\ error.statusCode = 400
    /\ net.listingsCalls = 0
    /\ net.quotesCalls = 0

\* C13 witness: a request whose only fault is sortBy=rank was rejected.
C13_Witness ==
  /\ pc = "error"
  /\ via = "master"
  /\ query.sortBy = "rank"
  /\ query.filter = "gainers"
  /\ query.sortPeriod = "7d"
  /\ error.statusCode = 400

\* C14: when the listings call returns an empty page, getCryptoData succeeds
\* with total_items = 0, total_pages = 0, has_next_page = false and
\* has_previous_page = false.
C14_EmptyUpstreamPage ==
  (Done /\ Len(response.data) = 0) =>
    /\ result.pagination.total_items = 0
    /\ result.pagination.total_pages = 0
    /\ result.pagination.has_next_page = FALSE
    /\ result.pagination.has_previous_page = FALSE

\* C15: when local filtering removes every record of a non-empty page, the
\* request succeeds with empty data, total_items = 0, total_pages = 0,
\* has_next_page = false and has_previous_page = false, on any page.
C15_EverythingFilteredOut ==
  (Done /\ Len(response.data) > 0 /\ Len(result.data) = 0) =>
    /\ error = NoError
    /\ result.pagination.total_items = 0
    /\ result.pagination.total_pages = 0
    /\ result.pagination.has_next_page = FALSE
    /\ result.pagination.has_previous_page = FALSE

\* C16: a failed quotes call is never propagated: after one attempt the
\* mapping is empty, the request completes without error, and every record
\* carries the listing's own figures.
C16_QuotesFailureSwallowed ==
  net.quotes = "failed" =>
    /\ pc = "done"
    /\ error = NoError
    /\ net.quotesCalls = 1
    /\ DOMAIN percentChangeData = {}
    /\ Len(transformed) = Len(response.data)
    /\ \A k \in 1..Len(transformed) :
         LET raw == transformed[k].raw_percent_change
             quote == response.data[k]
         IN /\ DOMAIN raw = Windows
            /\ raw["1h"] = quote.percent_change_1h
            /\ raw["24h"] = quote.percent_change_24h
            /\ raw["7d"] = quote.percent_change_7d
            /\ raw["30d"] = quote.percent_change_30d
            /\ raw["6h"] * 4 = quote.percent_change_24h

\* C16 witness: the quotes call failed and two records were returned.
C16_Witness ==
  /\ net.quotes = "failed"
  /\ Done
  /\ Len(result.data) = 2

\* C17: when the listings call fails the request ends with an ApiError of
\* status 500 and code EXTERNAL_API_ERROR, returns no data or pagination and
\* never issues the quotes call.
C17_ListingsFailureAborts ==
  net.listings = "failed" =>
    /\ pc = "error"
    /\ error = [statusCode |-> 500, code |-> "EXTERNAL_API_ERROR"]
    /\ result = NoResult
    /\ net.quotesCalls = 0
    /\ net.quotes = "none"

\* C17 witness: a gainers request ended in the error state after its
\* listings call failed.
C17_Witness ==
  /\ net.listings = "failed"
  /\ pc = "error"
  /\ options.filter = "gainers"
  /\ net.listingsCalls = 1

\* C18: has_next_page = (current_page < total_pages) and has_previous_page =
\* (current_page > 1); page 2, limit 5 and total_count 23 without local
\* filtering give total_pages 5 and both flags true.
C18_PageFlags ==
  /\ Done =>
       /\ result.pagination.has_next_page =
            (result.pagination.current_page < result.pagination.total_pages)
       /\ result.pagination.has_previous_page = (result.pagination.current_page > 1)
  /\ Pagination([NoOptions EXCEPT !.page = 2, !.limit = 5], 23, <<>>) =
       [total_items |-> 23, total_pages |-> 5, current_page |-> 2, page_size |-> 5,
        has_next_page |-> TRUE, has_previous_page |-> TRUE]

\* C18 witness: a middle page, with a page before and a page after it.
C18_Witness ==
  /\ Done
  /\ result.pagination.current_page = 2
  /\ result.pagination.total_pages = 3
  /\ result.pagination.has_next_page
  /\ result.pagination.has_previous_page

\* C19: in every successful result whose data is non-empty,
\* 1 <= current_page <= total_pages.
C19_CurrentPageWithinTotal ==
  (Done /\ Len(result.data) > 0) =>
    /\ 1 <= result.pagination.current_page
    /\ result.pagination.current_page <= result.pagination.total_pages

C21_ErrorEnvelope ==
  (pc = "answered" /\ error # NoError) =>
    /\ DOMAIN res.body = {"status", "data"}
    /\ DOMAIN res.body.status = {"timestamp", "error_code", "error_message", "code"}
    /\ res.body.data = Null
    /\ res.body.status.error_code =
         (IF Has(error, "statusCode") THEN error.statusCode
          ELSE IF Has(error, "status") THEN error.status
          ELSE 500)
    /\ res.statusCode = res.body.status.error_code
    /\ "stack" \notin DOMAIN res.body

\* C22: getCryptocurrencyBySymbol makes exactly one listings fetch and, with
\* S the upper-cased requested symbol, ends in a 404 NOT_FOUND error if and
\* only if no record of the fetched page has symbol S; otherwise it answers
\* with the first record of the page whose symbol is S.
C22_SymbolLookup ==
  via = "symbol" =>
    /\ net.listingsCalls = 1
    /\ (net.listings = "ok" /\ pc \in {"error", "answered"}) =>
         LET S == ToUpperCase(req.symbol)
             page == response.data
             hits == { k \in 1..Len(page) : page[k].symbol = S }
         IN IF hits = {}
              THEN error.statusCode = 404 /\ error.code = "NOT_FOUND"
              ELSE /\ error = NoError
                   /\ pc = "answered"
                   /\ res.body.data.symbol = S
                   /\ \E k \in hits :
                        /\ \A j \in hits : k <= j
                        /\ res.body.data.id = page[k].id

\* C22 witness: the request for 'btc' was answered with Bitcoin.
C22_Witness ==
  /\ via = "symbol"
  /\ pc = "answered"
  /\ error = NoError
  /\ req.symbol = <<"b", "t", "c">>
  /\ res.body.data.id = 1

\* The value a record is ordered by under the current directive: the raw
\* percent change of the window the filter or sortPeriod names, or the
\* price, market cap or volume; empty when the record has no such value.
LocalSortKey(crypto) ==
  LET raw == crypto.raw_percent_change
      window == IF options.filter \in VALID_TIME_PERIODS THEN options.filter
                ELSE NamedPeriod(options.sortPeriod)
  IN IF options.filter # Undefined \/ options.sortBy = "percent_change"
       THEN { raw[w] : w \in {window} \cap DOMAIN raw }
     ELSE IF options.sortBy = "price" THEN {crypto.price}
     ELSE IF options.sortBy = "volume_24h" THEN {crypto.volume_24h}
     ELSE {crypto.market_cap}

\* C23: when the filter is 5m or 6h, or sortDirection=asc is requested, the
\* returned data is ordered by the resolved raw field in the requested
\* direction, and records of equal key keep their upstream order.
C23_LocallySorted ==
  (Done /\ (options.filter \in {"5m", "6h"} \/ options.sortDirection = "asc")) =>
    \A k \in 1..(Len(result.data) - 1) :
      \E a \in LocalSortKey(result.data[k]), b \in LocalSortKey(result.data[k + 1]) :
        /\ IF SortDirOf(options) = "asc" THEN a <= b ELSE a >= b
        /\ a = b => result.data[k].index < result.data[k + 1].index

\* The provider's field for a period it can sort by
ProviderField(p) ==
  CASE p = "1h" -> "percent_change_1h"
    [] p = "24h" -> "percent_change_24h"
    [] p = "7d" -> "percent_change_7d"
    [] p = "30d" -> "percent_change_30d"

\* The period a directive puts in effect: the window filter when there is
\* one, else sortPeriod under trending, gainers or sortBy=percent_change
PeriodInEffect(o) ==
  IF o.filter \in VALID_TIME_PERIODS THEN {o.filter}
  ELSE IF o.filter \in {"trending", "gainers"} \/ o.sortBy = "percent_change"
    THEN {o.sortPeriod} \cap VALID_TIME_PERIODS
  ELSE {}

\* C24: the sort field sent upstream is one of market_cap, price,
\* volume_24h, percent_change_1h, _24h, _7d, _30d; a period in effect that
\* the provider supports (1h, 24h, 7d, 30d) resolves to its own field, and
\* 5m or 6h resolves to percent_change_24h.
C24_SortFieldResolution ==
  (via = "params" /\ pc = "done") =>
    /\ params.sort \in {"market_cap", "price", "volume_24h", "percent_change_1h",
                        "percent_change_24h", "percent_change_7d", "percent_change_30d"}
    /\ \A p \in PeriodInEffect(options) :
         IF p \in {"5m", "6h"} THEN params.sort = "percent_change_24h"
         ELSE params.sort = ProviderField(p)

\* C24 witness: the parameters for filter=6h, sortBy=percent_change,
\* sortPeriod=7d carry sort=percent_change_24h.
C24_Witness ==
  /\ via = "params"
  /\ pc = "done"
  /\ options.filter = "6h"
  /\ options.sortBy = "percent_change"
  /\ options.sortPeriod = "7d"
  /\ params.sort = "percent_change_24h"

\* C25: with filter=trending or filter=gainers buildApiParams returns
\* sort_dir=desc whatever sortDirection was supplied, and for gainers it
\* returns nothing but start, limit, convert, sort and sort_dir (no bound on
\* the percent change); with a time-window filter it returns the caller's
\* sortDirection, desc when none was given.
C25_SortDirection ==
  (via = "params" /\ pc = "done") =>
    /\ options.filter \in {"trending", "gainers"} => params.sort_dir = "desc"
    /\ options.filter = "gainers" =>
         DOMAIN params = {"start", "limit", "convert", "sort", "sort_dir"}
    /\ options.filter \in VALID_TIME_PERIODS =>
         params.sort_dir = (IF options.sortDirection = Undefined THEN "desc"
                            ELSE options.sortDirection)

\* C25 witness: the parameters of a gainers directive that asked for asc
\* carry sort_dir=desc.
C25_Witness ==
  /\ via = "params"
  /\ pc = "done"
  /\ options.filter = "gainers"
  /\ options.sortDirection = "asc"
  /\ params.sort_dir = "desc"

\* C26: for page >= 1 and limit in 1..100 the listings request of
\* getCryptoData carries start = (page - 1) * limit + 1 and limit = limit,
\* and one listings request, not more, is made per run.
C26_StartOffset ==
  (via = "direct" /\ pc # "idle" /\ options.page >= 1 /\ options.limit \in 1..100) =>
    /\ params.start = (options.page - 1) * options.limit + 1
    /\ params.limit = options.limit
    /\ net.listingsCalls = 1

\* C26 witness: page 2 with limit 2 was asked for from start 3 and the run
\* has completed.
C26_Witness ==
  /\ via = "direct"
  /\ pc = "done"
  /\ options.page = 2
  /\ options.limit = 2
  /\ params.start = 3
  /\ net.listingsCalls = 1

\* The strings between the commas of s, as String.prototype.split(',')
RECURSIVE SplitCommas(_, _, _)
SplitCommas(s, current, done) ==
  IF s = <<>> THEN Append(done, current)
  ELSE IF Head(s) = "," THEN SplitCommas(Tail(s), <<>>, Append(done, current))
  ELSE SplitCommas(Tail(s), Append(current, Head(s)), done)

\* C27: within one getCryptoData request the quotes call starts only after
\* the listings response has arrived, its symbol parameter lists the symbols
\* of that listings page in order, at most one call of each kind is made,
\* and a failed call is not repeated.
C27_CallOrdering ==
  (via = "direct") =>
    /\ net.listingsCalls <= 1
    /\ net.quotesCalls <= 1
    /\ net.quotesCalls = 1 => net.listings = "ok"
    /\ net.listings = "failed" => (pc = "error" /\ net.listingsCalls = 1 /\ net.quotesCalls = 0)
    /\ net.quotes = "failed" => (pc = "done" /\ net.quotesCalls = 1)
    /\ (net.quotesCalls = 1 /\ response.data # <<>>) =>
         SplitCommas(net.symbol, <<>>, <<>>) =
           [k \in 1..Len(response.data) |-> response.data[k].symbol]
    /\ (net.quotesCalls = 1 /\ response.data = <<>>) => net.symbol = <<>>

\* C27 witness: a page of two listings was fetched, then the quotes call for
\* those two symbols failed, and the request completed.
C27_Witness ==
  /\ via = "direct"
  /\ pc = "done"
  /\ net.listings = "ok"
  /\ net.quotes = "failed"
  /\ net.quotesCalls = 1
  /\ Len(response.data) = 2
  /\ net.symbol = response.data[1].symbol \o <<",">> \o response.data[2].symbol

\* C28: for every listing sequence, mapping and startIndex the output of
\* transformCryptoData has the length of the input, its i-th record (i from
\* 0) carries the id, name and symbol of the i-th listing, and its index is
\* startIndex + i.
C28_TransformOrderPreserving ==
  (via = "transform" /\ pc = "done") =>
    /\ Len(transformed) = Len(response.data)
    /\ \A k \in 1..Len(response.data) :
         /\ transformed[k].id = response.data[k].id
         /\ transformed[k].name = response.data[k].name
         /\ transformed[k].symbol = response.data[k].symbol
         /\ transformed[k].index = (params.start - 1) + (k - 1)

\* C28 witness: Litecoin then Bitcoin, with an estimate for Bitcoin only,
\* transformed from startIndex 3.
C28_Witness ==
  /\ via = "transform"
  /\ pc = "done"
  /\ params.start - 1 = 3
  /\ Len(transformed) = 2
  /\ transformed[1].id = 4
  /\ transformed[2].id = 1
  /\ DOMAIN percentChangeData = {<<"B", "T", "C">>}
  /\ transformed[2].index = 4

\* What a getCryptoData call with directive o returns when it runs alone
\* against the provider's snapshot and receives the enrichment mapping pcd
AloneResult(o, pcd) ==
  GetCryptoDataResult(o, ListingsLatest(universe, buildApiParams(o)), pcd)

\* The enrichment mappings a call with directive o can receive
AloneMappings(o) ==
  {AdditionalPercentChanges(FALSE, <<>>)} \cup
  { AdditionalPercentChanges(TRUE, data) :
      data \in QuotesLatestResponses(ListingsLatest(universe, buildApiParams(o)).data) }

\* C29: whatever the interleaving of two getCryptoData calls in flight, each
\* returns the data and pagination it would return alone against the same
\* upstream responses.
C29_ConcurrentIndependent ==
  /\ (via = "concurrent" /\ pc = "done") =>
       /\ percentChangeData \in AloneMappings(options)
       /\ result = AloneResult(options, percentChangeData)
  /\ peer.pc = "done" =>
       /\ peer.percentChangeData \in AloneMappings(peer.options)
       /\ peer.result = AloneResult(peer.options, peer.percentChangeData)

\* C29 witness: the second call, for another page, completed with data
\* while the first was waiting for its quotes response.
C29_Witness ==
  /\ via = "concurrent"
  /\ pc = "quotes"
  /\ peer.pc = "done"
  /\ peer.options.page # options.page
  /\ peer.result.data # <<>>
  /\ response.data # <<>>

\* C30: in every response of getGainerCryptocurrencies the pagination block
\* is consistent: total_pages = ceil(total_items / page_size) and
\* has_next_page = (current_page < total_pages).
C30_GainersPaginationConsistent ==
  (via = "gainers" /\ pc = "answered" /\ error = NoError) =>
    LET p == res.body.pagination
    IN /\ p.total_pages = Ceil(p.total_items, p.page_size)
       /\ p.has_next_page = (p.current_page < p.total_pages)

====
